---- MODULE Spec2Model ----
(***************************************************************************)
(* Model of storage-proofs/src/drgraph.rs: the bucket-sampling parent      *)
(* function of BucketGraph and the MerkleProof value type (construction    *)
(* from a builder's raw proof, validate, validate_data, len).              *)
(***************************************************************************)
EXTENDS Integers, Sequences, FiniteSets, TLC

\* ------------------------------------------------------------------ bounds
MaxNodes == 5     \* trees are built over graphs of 2..MaxNodes nodes
MaxDegree == 3    \* base degrees 1..MaxDegree
MaxNode == 5      \* parents is called on a graph of MaxNode + 1 nodes, with node in 0..MaxNode
WordMod == 5      \* the modelled PRNG words range over 0..WordMod-1
MaxCalls == 3     \* length of the recorded history of parents calls

MaxDefault == 2   \* MerkleProof::default(n) is called with n in 0..MaxDefault

VARIABLES
    graph,      \* the BucketGraph (nodes, base_degree, seed)
    calls,      \* history of parents calls: node and what the call returned
    lastSteps,  \* the intermediate values of the latest parents call, one record per k
    tree,       \* the latest Graph::merkle_tree call: its inputs and its result
    proof,      \* the builder's raw proof of the latest gen_proof call
    mp,         \* the MerkleProof in hand, converted from proof or a default
    checked     \* the latest validate / validate_data call on mp and its result

vars == <<graph, calls, lastSteps, tree, proof, mp, checked>>

\* ------------------------------------------------------------ arithmetic
Min(a, b) == IF a < b THEN a ELSE b
Max(a, b) == IF a > b THEN a ELSE b

RECURSIVE Pow2(_)
Pow2(n) == IF n = 0 THEN 1 ELSE 2 * Pow2(n - 1)

\* ((x) as f32).log2().floor() as usize.  The cast is exact below 2^24 and
\* the single-precision logarithm of so small an x has the integer floor;
\* every x of the model is below 2^6.  (Just below a power of two from 2^21
\* on, the rounded logarithm can reach the next integer.)
RECURSIVE Log2Floor(_)
Log2Floor(x) == IF x < 2 THEN 0 ELSE 1 + Log2Floor(x \div 2)

\* ------------------------------------------------------------------ PRNG
\* ChaChaRng::from_seed(&seed): a keyed stream, a fixed function of the
\* 8-word seed and the position n in the stream.  All eight words take part;
\* the two draws of step k = n \div 2 are keyed by different words, so that
\* over the seeds of the model every pair of draws occurs at every step, and
\* the draws differ from step to step.
ChaChaWord(seed8, n) ==
    (seed8[1 + (n % 2)] * (1 + (n \div 2)) + (n \div 2)
       + seed8[3] + seed8[4] + seed8[5] + seed8[6] + seed8[7] + seed8[8]) % WordMod

\* rng.gen::<usize>()
Gen(seed8, n) == ChaChaWord(seed8, n)

\* rng.gen_range(low, high): asserts low < high, then low + (word mod range)
GenRange(seed8, n, low, high) == low + (ChaChaWord(seed8, n) % (high - low))

\* ----------------------------------------------------------- BucketGraph
Seeds == {<<a, b, 0, 0, 0, 0, 0>> : a \in 0..(WordMod - 1), b \in 0..(WordMod - 1)}

\* BucketGraph::new(nodes, base_degree, 0, seed)
BucketGraph(nodes, base_degree, seed) ==
    [nodes |-> nodes, base_degree |-> base_degree, seed |-> seed]

\* seed = self.seed | node
PerNodeSeed_shared(g, node) == g.seed \o <<Len(calls)>>
PerNodeSeed(g, node) == g.seed \o <<node>>

Logi(node, m) == Log2Floor(node * m)

Jj(node, m, k, j) == Min(node * m + k, Pow2(j + 1))

GenRangeLow(jj) == Max(jj \div 2, 2)

GenRangeHigh_wide(jj) == jj + 2
GenRangeHigh(jj) == jj + 1

\* remove self references and replace with reference to previous node
RemoveSelfRef_keep(out, node) == out
RemoveSelfRef(out, node) == IF out = node THEN node - 1 ELSE out

NoStep(kind) ==
    [panic |-> kind, logi |-> 0, j |-> 0, jj |-> 0, low |-> 0, high |-> 0,
     back_dist |-> 0, raw |-> 0, out |-> 0]

\* The closure of lines 272-290 for one k; the two draws are words 2k and
\* 2k+1 of the stream.  panic names the failure that aborts the call.
SampleStep(g, node, k) ==
    LET m == g.base_degree
        seed8 == PerNodeSeed(g, node)
        logi == Logi(node, m)
    IN  IF logi = 0 THEN NoStep("rem_by_zero")
        ELSE
        LET j == Gen(seed8, 2 * k) % logi
            jj == Jj(node, m, k, j)
            low == GenRangeLow(jj)
            high == GenRangeHigh(jj)
        IN  IF ~(low < high)
            THEN [NoStep("empty_range") EXCEPT !.logi = logi, !.j = j, !.jj = jj,
                                               !.low = low, !.high = high]
            ELSE
            LET back_dist == GenRange(seed8, 2 * k + 1, low, high)
                st == [panic |-> "none", logi |-> logi, j |-> j, jj |-> jj,
                       low |-> low, high |-> high, back_dist |-> back_dist,
                       raw |-> 0, out |-> 0]
            IN  IF back_dist > node * m + k
                THEN [st EXCEPT !.panic = "underflow"]
                ELSE
                LET out == (node * m + k - back_dist) \div m
                    kept == RemoveSelfRef(out, node)
                IN  IF kept # out THEN [st EXCEPT !.raw = out, !.out = kept]
                    ELSE IF ~(out <= node) THEN [st EXCEPT !.panic = "assert", !.raw = out, !.out = out]
                    ELSE [st EXCEPT !.raw = out, !.out = out]

Steps(g, node) == [k \in 1..g.base_degree |-> SampleStep(g, node, k - 1)]

FirstPanic(steps) ==
    IF \E k \in 1..Len(steps) : steps[k].panic # "none"
    THEN steps[CHOOSE k \in 1..Len(steps) :
                 /\ steps[k].panic # "none"
                 /\ \A l \in 1..(k - 1) : steps[l].panic = "none"].panic
    ELSE "none"

\* parents.sort_unstable()
SortUnstable_none(s) == s
SortUnstable(s) == SortSeq(s, LAMBDA a, b : a < b)

\* BucketGraph::parents: panic is "none" and value the returned vector, or
\* panic names the failure and no vector is returned.
parents(g, node) ==
    IF node \in {0, 1}
    THEN [panic |-> "none", value |-> [k \in 1..g.base_degree |-> 0], steps |-> <<>>]
    ELSE LET steps == Steps(g, node)
             p == FirstPanic(steps)
         IN  [panic |-> p,
              value |-> IF p = "none"
                        THEN SortUnstable([k \in 1..Len(steps) |-> steps[k].out])
                        ELSE <<>>,
              steps |-> steps]

\* ------------------------------------------------------- hash capability
\* Digests are the terms of the hasher's operations, written as sequences of
\* numbers: <<0>> is the default (all-zero) digest, <<1>> \o bytes the digest
\* of the absorbed bytes, <<2>> \o d the leaf transform of d and
\* <<3, height, Len(l)>> \o l \o r the node transform.  Distinct terms are
\* distinct digests (no collisions), and no transform yields the default.
DefaultDigest == <<0>>

\* TreeAlgorithm::default() / PedersenAlgorithm::new(): nothing absorbed yet
AlgorithmNew == <<>>

\* data.hash(&mut a) for a byte slice: absorb the bytes
Absorb(a, bytes) == a \o bytes

\* a.hash(): the digest of what was absorbed
Digest(a) == <<1>> \o a

\* a.reset()
Reset(a) == <<>>

\* a.leaf(item)
Leaf(item) == <<2>> \o item

\* a.node(left, right, height)
Node(left, right, height) == <<3, height, Len(left)>> \o left \o right

\* ------------------------------------------------------- the tree builder
IsOdd(n) == n % 2 = 1

RECURSIVE BuildRows(_, _)
\* merkle::MerkleTree::build: the rows bottom-up; a row of odd width (above
\* one) is filled with a copy of its last element before it is paired.
BuildRows(row, height) ==
    IF Len(row) <= 1 THEN <<row>>
    ELSE LET padded == IF IsOdd(Len(row)) THEN Append(row, row[Len(row)]) ELSE row
             next == [k \in 1..(Len(padded) \div 2) |->
                        Node(padded[2 * k - 1], padded[2 * k], height)]
         IN  <<padded>> \o BuildRows(next, height + 1)

\* MerkleTree::new(leaf payloads): the leaf transform, then the rows
MerkleTreeNew(payloads) ==
    LET leaves == [k \in 1..Len(payloads) |-> Leaf(payloads[k])]
        rows == BuildRows(leaves, 0)
    IN  [leafs |-> Len(payloads), rows |-> rows, root |-> rows[Len(rows)][1]]

\* MerkleTree::gen_proof(i): lemma = leaf, one sibling per row, root;
\* path[l] is true when the running hash at row l is the left child.
GenProofOf(t, i) ==
    LET depth == Len(t.rows) - 1
        at(l) == i \div Pow2(l - 1)
    IN  [lemma |-> <<t.rows[1][i + 1]>>
                   \o [l \in 1..depth |->
                         IF at(l) % 2 = 0 THEN t.rows[l][at(l) + 2] ELSE t.rows[l][at(l)]]
                   \o <<t.root>>,
         path |-> [l \in 1..depth |-> at(l) % 2 = 0]]

\* proof::Proof::item and proof::Proof::root
ProofItem(p) == p.lemma[1]
ProofRoot(p) == p.lemma[Len(p.lemma)]

\* ------------------------------------------------------------ MerkleProof
RECURSIVE path_index_fwd(_)
path_index_fwd(path) ==
    IF path = <<>> THEN 0
    ELSE 2 * path_index_fwd(SubSeq(path, 1, Len(path) - 1))
         + (IF path[Len(path)].is_right THEN 1 ELSE 0)

RECURSIVE path_index(_)
\* fold over path.iter().rev(): the last entry is the most significant bit
path_index(path) ==
    IF path = <<>> THEN 0
    ELSE 2 * path_index(Tail(path)) + (IF path[1].is_right THEN 1 ELSE 0)

\* MerkleProof::default(n)
Default(n) ==
    [path |-> [k \in 1..n |-> [hash |-> DefaultDigest, is_right |-> FALSE]],
     root |-> DefaultDigest,
     leaf |-> DefaultDigest]

RECURSIVE FoldPath(_, _, _)
\* (0..self.path.len()).fold(self.leaf, ...) from layer i on, h the running hash
FoldPath(m, i, h) ==
    IF i >= Len(m.path) THEN h
    ELSE LET is_right == m.path[i + 1].is_right
             left == IF is_right THEN m.path[i + 1].hash ELSE h
             right == IF is_right THEN h ELSE m.path[i + 1].hash
         IN  FoldPath(m, i + 1, Node(left, right, i))

HashChain_skip(m) == m.leaf
HashChain(m) == FoldPath(m, 0, m.leaf)

\* MerkleProof::validate
validate(m, node) ==
    IF path_index(m.path) # node THEN FALSE
    ELSE m.root = HashChain(m)

\* MerkleProof::validate_data
validate_data(m, data) ==
    LET a == Absorb(AlgorithmNew, data)
        item_hash == Digest(a)
        leaf_hash == Leaf(item_hash)
    IN  leaf_hash = m.leaf

\* MerkleProof::len
len_short(m) == Len(m.path) + 1
len(m) == Len(m.path) + 2

\* impl Into<MerkleProof> for proof::Proof<TreeHash>
Into_noflip(p) ==
    [path |-> [k \in 1..Min(Len(p.lemma) - 1, Len(p.path)) |->
                 [hash |-> p.lemma[k + 1], is_right |-> p.path[k]]],
     root |-> ProofRoot(p),
     leaf |-> ProofItem(p)]
Into(p) ==
    [path |-> [k \in 1..Min(Len(p.lemma) - 1, Len(p.path)) |->
                 [hash |-> p.lemma[k + 1], is_right |-> ~p.path[k]]],
     root |-> ProofRoot(p),
     leaf |-> ProofItem(p)]

\* ------------------------------------------------------------------ Graph
NodeSizes == {8, 16, 32, 64}     \* the node_size arguments tried
Bytes == {2, 255}                \* the byte values the data is made of

\* util::data_at_node(data, i, node_size)
data_at_node(data, i, node_size) ==
    SubSeq(data, i * node_size + 1, (i + 1) * node_size)

SupportedNodeSize_any(node_size) == node_size \in {8, 16, 32, 64}
SupportedNodeSize(node_size) == node_size = 16 \/ node_size = 32 \/ node_size = 64

\* a.reset() at the end of the closure of merkle_tree
BridgeReset_skip(a) == a
BridgeReset(a) == Reset(a)

RECURSIVE LeafPayloads(_, _, _, _, _)
\* the iterator (0..self.size()).map(...) of merkle_tree, from node i on; a
\* is the one hasher the closure keeps using
LeafPayloads(data, i, size, node_size, a) ==
    IF i >= size THEN <<>>
    ELSE LET d == data_at_node(data, i, node_size)
             a1 == Absorb(a, d)
             h == Digest(a1)
         IN  <<h>> \o LeafPayloads(data, i + 1, size, node_size, BridgeReset(a1))

NoMerkleTree == [leafs |-> 0, rows |-> <<>>, root |-> DefaultDigest]

\* Graph::merkle_tree
merkle_tree(g, data, node_size) ==
    IF Len(data) # node_size * g.nodes
    THEN [status |-> "ShapeMismatch", tree |-> NoMerkleTree]
    ELSE IF ~SupportedNodeSize(node_size)
    THEN [status |-> "UnsupportedNodeSize", tree |-> NoMerkleTree]
    ELSE [status |-> "ok",
          tree |-> MerkleTreeNew(LeafPayloads(data, 0, g.nodes, node_size, AlgorithmNew))]

RECURSIVE Log2Ceil(_)
Log2Ceil(n) == IF n <= 1 THEN 0 ELSE 1 + Log2Ceil((n + 1) \div 2)

\* graph_height: (size as f64).log2().ceil() as usize
graph_height(size) == Log2Ceil(size)

\* Graph::merkle_tree_depth
merkle_tree_depth(g) == graph_height(g.nodes)

\* ---------------------------------------------------------------- actions
NoTree == [status |-> "none", data_len |-> 0, node_size |-> 0, data |-> <<>>,
           tree |-> NoMerkleTree]
NoProof == [of |-> -1, lemma |-> <<>>, path |-> <<>>]
NoMp == [from |-> "none", of |-> -1, proof |-> Default(0)]
NoCheck == [op |-> "none", arg |-> -1, result |-> FALSE]

ZeroSeed == <<0, 0, 0, 0, 0, 0, 0>>

InitGraph ==
    /\ graph \in {BucketGraph(MaxNode + 1, d, s) : d \in 1..MaxDegree, s \in Seeds}
    /\ calls = <<>>
    /\ lastSteps = <<>>
    /\ tree = NoTree
    /\ proof = NoProof
    /\ mp = NoMp
    /\ checked = NoCheck

InitMerkle ==
    /\ graph \in {BucketGraph(n, 1, ZeroSeed) : n \in 2..MaxNodes}
    /\ calls = <<>>
    /\ lastSteps = <<>>
    /\ tree = NoTree
    /\ proof = NoProof
    /\ mp = NoMp
    /\ checked = NoCheck

\* g.parents(node)
CallParents(node) ==
    /\ Len(calls) < MaxCalls
    /\ LET r == parents(graph, node)
       IN  /\ calls' = Append(calls, [node |-> node, panic |-> r.panic, value |-> r.value])
           /\ lastSteps' = r.steps
    /\ UNCHANGED <<graph, tree, proof, mp, checked>>

\* data of nblocks blocks of block bytes each, block i filled with fills[i],
\* followed by extra more bytes
DataOf(fills, block, extra) ==
    [x \in 1..(Len(fills) * block + extra) |->
       IF x <= Len(fills) * block THEN fills[((x - 1) \div block) + 1] ELSE 2]

\* g.merkle_tree(data, node_size), once per graph.  The data is kept with the
\* tree it was built into; a failed call keeps only its length.
CallMerkleTree(data, node_size) ==
    /\ tree.status = "none"
    /\ LET r == merkle_tree(graph, data, node_size)
       IN  tree' = [status |-> r.status, data_len |-> Len(data), node_size |-> node_size,
                    data |-> IF r.status = "ok" THEN data ELSE <<>>,
                    tree |-> r.tree]
    /\ UNCHANGED <<graph, calls, lastSteps, proof, mp, checked>>

\* tree.gen_proof(i); the proof replaces the one in hand
CallGenProof(i) ==
    /\ tree.status = "ok"
    /\ i < tree.tree.leafs
    /\ LET p == GenProofOf(tree.tree, i)
       IN  proof' = [of |-> i, lemma |-> p.lemma, path |-> p.path]
    /\ mp' = NoMp
    /\ checked' = NoCheck
    /\ UNCHANGED <<graph, calls, lastSteps, tree>>

\* let mp: MerkleProof = proof.into()
CallInto ==
    /\ proof # NoProof
    /\ mp' = [from |-> "proof", of |-> proof.of, proof |-> Into(proof)]
    /\ checked' = NoCheck
    /\ UNCHANGED <<graph, calls, lastSteps, tree, proof>>

\* MerkleProof::default(n); it replaces the proof in hand
CallDefault(n) ==
    /\ mp' = [from |-> "default", of |-> n, proof |-> Default(n)]
    /\ proof' = NoProof
    /\ checked' = NoCheck
    /\ UNCHANGED <<graph, calls, lastSteps, tree>>

\* mp.validate(node)
CallValidate(node) ==
    /\ mp.from # "none"
    /\ checked' = [op |-> "validate", arg |-> node, result |-> validate(mp.proof, node)]
    /\ UNCHANGED <<graph, calls, lastSteps, tree, proof, mp>>

\* mp.validate_data(&data[j * node_size..(j + 1) * node_size])
CallValidateData(j) ==
    /\ mp.from # "none"
    /\ tree.status = "ok"
    /\ j < tree.tree.leafs
    /\ checked' = [op |-> "validate_data", arg |-> j,
                   result |-> validate_data(mp.proof,
                                            SubSeq(tree.data, j * tree.node_size + 1,
                                                   (j + 1) * tree.node_size))]
    /\ UNCHANGED <<graph, calls, lastSteps, tree, proof, mp>>

DataInputs ==
    {DataOf(fills, block, extra) :
        fills \in UNION {[1..n -> Bytes] : n \in {graph.nodes}},
        block \in NodeSizes, extra \in {0}}
    \cup {DataOf([k \in 1..n |-> 2], block, extra) :
            n \in {graph.nodes - 1, graph.nodes + 1}, block \in NodeSizes, extra \in {0, 1}}
    \cup {DataOf([k \in 1..graph.nodes |-> 2], block, 1) : block \in NodeSizes}

NextGraph == \E node \in 0..MaxNode : CallParents(node)

NextMerkle ==
    \/ /\ tree.status = "none"
       /\ \E data \in DataInputs, node_size \in NodeSizes : CallMerkleTree(data, node_size)
    \/ \E i \in 0..(MaxNodes - 1) : CallGenProof(i)
    \/ CallInto
    \/ \E n \in 0..MaxDefault : CallDefault(n)
    \/ \E node \in 0..MaxNodes : CallValidate(node)
    \/ \E j \in 0..(MaxNodes - 1) : CallValidateData(j)

SpecGraph == InitGraph /\ [][NextGraph]_vars

SpecMerkle == InitMerkle /\ [][NextMerkle]_vars

\* ------------------------------------------------------ BucketGraph claims
LastCall == calls[Len(calls)]

IsSorted(s) == \A k \in 1..(Len(s) - 1) : s[k] <= s[k + 1]

\* C1: every parents call returns exactly base_degree indices in ascending
\* order; for node >= 2 no returned index is the node itself, a sampled
\* self-reference having been replaced by node - 1.
C1_SortedDegreeNoSelf ==
    /\ \A c \in 1..Len(calls) :
         /\ calls[c].panic = "none"
         /\ Len(calls[c].value) = graph.base_degree
         /\ IsSorted(calls[c].value)
         /\ calls[c].node >= 2 =>
              \A k \in 1..Len(calls[c].value) : calls[c].value[k] # calls[c].node
    /\ calls # <<>> =>
         \A k \in 1..Len(lastSteps) :
            lastSteps[k].raw = LastCall.node => lastSteps[k].out = LastCall.node - 1

\* a node >= 2 whose draws sampled the node itself and came out of order
C1_Witness ==
    /\ calls # <<>>
    /\ LastCall.node >= 2
    /\ LastCall.panic = "none"
    /\ \E k \in 1..Len(lastSteps) : lastSteps[k].raw = LastCall.node
    /\ \E k \in 1..Len(lastSteps) : \E l \in (k + 1)..Len(lastSteps) :
          lastSteps[k].out > lastSteps[l].out

\* C2: every parent of node i lies in 0..i and equals i only when i = 0;
\* parents(0) and parents(1) are base_degree zeros, and for i >= 2 every
\* parent is below i.
C2_Forward ==
    \A c \in 1..Len(calls) :
       LET i == calls[c].node
           v == calls[c].value
       IN  /\ \A k \in 1..Len(v) : /\ 0 <= v[k]
                                   /\ v[k] <= i
                                   /\ v[k] = i => i = 0
           /\ i \in {0, 1} => v = [k \in 1..graph.base_degree |-> 0]
           /\ i >= 2 => \A k \in 1..Len(v) : v[k] < i

\* nodes 0, 1 and a later node were asked, the later one with the nearest
\* possible parent i - 1 got from a replaced self-reference
C2_Witness ==
    /\ Len(calls) = 3
    /\ calls[1].node = 0
    /\ calls[2].node = 1
    /\ calls[3].node >= 2
    /\ \E k \in 1..Len(lastSteps) :
          /\ lastSteps[k].raw = calls[3].node
          /\ calls[3].value[Len(calls[3].value)] = calls[3].node - 1

SameAnswers ==
    \A a \in 1..Len(calls) : \A b \in 1..Len(calls) :
       calls[a].node = calls[b].node =>
          /\ calls[a].value = calls[b].value
          /\ calls[a].panic = calls[b].panic

FreshlySeeded ==
    (calls # <<>> /\ LastCall.node >= 2) =>
       \A k \in 1..Len(lastSteps) :
          LET seed8 == graph.seed \o <<LastCall.node>>
              st == lastSteps[k]
          IN  st.panic = "none" =>
                 /\ st.j = ChaChaWord(seed8, 2 * (k - 1)) % st.logi
                 /\ st.back_dist =
                      st.low + (ChaChaWord(seed8, 2 * (k - 1) + 1) % (st.high - st.low))

C10_SamplingSafe ==
    (calls # <<>> /\ LastCall.node >= 2) =>
       /\ LastCall.panic = "none"
       /\ Len(lastSteps) = graph.base_degree
       /\ \A k \in 1..Len(lastSteps) :
            LET st == lastSteps[k]
                x == LastCall.node * graph.base_degree + (k - 1)
            IN  /\ st.panic = "none"
                /\ st.logi >= 1
                /\ st.j \in 0..(st.logi - 1)
                /\ st.jj >= 2
                /\ st.low = Max(st.jj \div 2, 2)
                /\ st.low <= st.jj
                /\ st.back_dist \in st.low..st.jj
                /\ st.back_dist <= x
                /\ st.raw = (x - st.back_dist) \div graph.base_degree
                /\ st.raw <= LastCall.node
                /\ st.out <= LastCall.node

\* the extreme draw: back_dist is all of i*d + k, so the difference is zero
C10_Witness ==
    /\ calls # <<>>
    /\ LastCall.node >= 2
    /\ \E k \in 1..Len(lastSteps) :
          /\ lastSteps[k].panic = "none"
          /\ lastSteps[k].back_dist = LastCall.node * graph.base_degree + (k - 1)
          /\ lastSteps[k].out = 0
    /\ \E k \in 1..Len(lastSteps) : lastSteps[k].logi = 1

\* ------------------------------------------------------ MerkleProof claims
FromTree == mp.from = "proof"

\* C3: the MerkleProof converted from the builder's proof of leaf i
\* validates for i: folding node(left, right, layer) from the leaf over the
\* path gives the builder's root.
C3_RoundTrip ==
    /\ FromTree => /\ mp.proof.root = tree.tree.root
                   /\ FoldPath(mp.proof, 0, mp.proof.leaf) = tree.tree.root
    /\ (FromTree /\ checked.op = "validate" /\ checked.arg = mp.of) =>
          checked.result = TRUE

\* the last leaf of a tree whose size is no power of two, validated
C3_Witness ==
    /\ FromTree
    /\ graph.nodes = 5
    /\ mp.of = 4
    /\ checked.op = "validate"
    /\ checked.arg = mp.of
    /\ checked.result = TRUE

\* C4: the index read from the is_right bits of the proof of leaf i,
\* root-adjacent entry first, is i; validate(j) is false for j # i although
\* the hash chain from the leaf gives the root.
C4_IndexBinding ==
    FromTree =>
       /\ path_index(mp.proof.path) = mp.of
       /\ (checked.op = "validate" /\ checked.arg # mp.of) =>
             /\ checked.result = FALSE
             /\ HashChain(mp.proof) = mp.proof.root

\* a valid proof of a leaf above 0 presented for another node of the tree
C4_Witness ==
    /\ FromTree
    /\ mp.of >= 1
    /\ checked.op = "validate"
    /\ checked.arg # mp.of
    /\ checked.arg < graph.nodes
    /\ checked.result = FALSE

\* C5: the MerkleProof of leaf i validates the data of node i, for each of
\* the node sizes 16, 32, 64.
C5_DataToLeaf ==
    (FromTree /\ checked.op = "validate_data" /\ checked.arg = mp.of) =>
       /\ tree.node_size \in {16, 32, 64}
       /\ checked.result = TRUE

\* the data of a node that is not the first one, whose block differs from
\* the block before it
C5_Witness ==
    /\ FromTree
    /\ checked.op = "validate_data"
    /\ checked.arg = mp.of
    /\ mp.of >= 1
    /\ tree.node_size = 32
    /\ tree.data[mp.of * 32] # tree.data[mp.of * 32 + 1]
    /\ checked.result = TRUE

\* C6: the converted path is as long as the builder's path_bits, which is
\* the tree depth merkle_tree_depth reports, and len() is the path length
\* plus two, the length of the builder's lemma.
C6_LengthReport ==
    FromTree =>
       /\ Len(mp.proof.path) = Len(proof.path)
       /\ Len(proof.path) = merkle_tree_depth(graph)
       /\ len(mp.proof) = Len(mp.proof.path) + 2
       /\ len(mp.proof) = Len(proof.lemma)

\* a proof from a tree of five leaves: depth three, lemma of five digests
C6_Witness ==
    /\ FromTree
    /\ graph.nodes = 5
    /\ Len(proof.lemma) = 5
    /\ Len(mp.proof.path) = 3

ShapeOk == tree.data_len = tree.node_size * graph.nodes

\* C7 as stated: a tree exactly for the right length and a supported node
\* size; wrong length fails with ShapeMismatch and an unsupported node size
\* fails with UnsupportedNodeSize.
C7_Original ==
    tree.status # "none" =>
       /\ tree.status = "ok" <=> (ShapeOk /\ tree.node_size \in {16, 32, 64})
       /\ tree.status # "ok" => tree.tree = NoMerkleTree
       /\ ~ShapeOk => tree.status = "ShapeMismatch"
       /\ tree.node_size \notin {16, 32, 64} => tree.status = "UnsupportedNodeSize"

\* C7 amended: merkle_tree returns a tree exactly for the right length and a
\* supported node size and builds none otherwise; the length is checked
\* first, so a wrong length fails with ShapeMismatch whatever the node size,
\* and an unsupported node size fails with UnsupportedNodeSize when the
\* length is node_size * N.
C7_ShapeThenNodeSize ==
    tree.status # "none" =>
       /\ tree.status = "ok" <=> (ShapeOk /\ tree.node_size \in {16, 32, 64})
       /\ tree.status # "ok" => tree.tree = NoMerkleTree
       /\ ~ShapeOk => tree.status = "ShapeMismatch"
       /\ (ShapeOk /\ tree.node_size \notin {16, 32, 64}) =>
             tree.status = "UnsupportedNodeSize"

\* node_size 8 with data of another length: the length check answers
C7_Witness ==
    /\ tree.status = "ShapeMismatch"
    /\ tree.node_size = 8
    /\ tree.data_len = 16 * graph.nodes

\* C9 as stated: a default MerkleProof of any length n >= 0 validates for no
\* index.
C9_Original ==
    (mp.from = "default" /\ checked.op = "validate") => checked.result = FALSE

\* C9 amended: default(n).validate(k) is false for every n >= 1 and every k,
\* and for n = 0 and every k # 0; default(0).validate(0) is true, the empty
\* path having index 0 and leaving the leaf, equal to the root, unhashed.
C9_DefaultValidatesOnlyEmpty ==
    (mp.from = "default" /\ checked.op = "validate") =>
       (checked.result <=> (mp.of = 0 /\ checked.arg = 0))

\* a default proof with a path, asked for index 0: the index check passes
\* and the hash chain decides
C9_Witness ==
    /\ mp.from = "default"
    /\ mp.of >= 1
    /\ checked.op = "validate"
    /\ checked.arg = 0
    /\ checked.result = FALSE
====
